---- MODULE Spec2Model ----
(***************************************************************************)
(* State-machine model of the ink! contract `Lottery` (src/lib.rs).        *)
(*                                                                         *)
(* The contract storage is the record `self`; the function-local           *)
(* `static mut SEED` of `rand` is the variable SEED.  A u32 is kept as the *)
(* pair <<high 16 bits, low 16 bits>> so that the wrapping 32-bit          *)
(* arithmetic of the generator is computed exactly.  Option<T> is the      *)
(* empty tuple (None) or a one-element tuple (Some).                       *)
(***************************************************************************)
EXTENDS Integers, Sequences, FiniteSets, TLC

VARIABLES self, SEED, op, ret, caller, balance, now, random_index, issued, nops,
          nraw, twin

vars == <<self, SEED, op, ret, caller, balance, now, random_index, issued, nops,
          nraw, twin>>

(***************************************************************************)
(* Bounds of the model and the environment's inputs.                       *)
(***************************************************************************)
MaxOps == 4
MaxRaw == 1
MaxTime == 1
MaxRun == 115

Accounts == {"alice", "bob"}
Prices == {2, 3}
Balances == {1, 2, 3}
Durations == {1}

(***************************************************************************)
(* Option and Result values.                                               *)
(***************************************************************************)
\* The value of `caller` and `balance` after a call that read neither from
\* the environment.
NoCaller == "-"

None == <<>>
Some(x) == <<x>>

Ok == [tag |-> "Ok"]
Err(e) == [tag |-> "Err", err |-> e]
Panic(m) == [tag |-> "Panic", msg |-> m]
Value(v) == [tag |-> "Value", val |-> v]

Error == {"InsufficientBalance", "InsufficientAllowance", "LotteryTimeExpired"}

(***************************************************************************)
(* 32-bit unsigned arithmetic on <<hi, lo>> pairs of 16-bit limbs.         *)
(***************************************************************************)
Limb == 65536

U32(n) == <<n \div Limb, n % Limb>>

\* 16 x 16 -> 32 bit product, by bytes of a so that no partial product
\* exceeds 2^24.
Mul16(a, b) ==
    LET p0 == (a % 256) * b
        p1 == (a \div 256) * b
        low == p0 + 256 * (p1 % 256)
    IN  <<(low \div Limb) + (p1 \div 256), low % Limb>>

wrapping_mul(x, y) ==
    LET ll == Mul16(x[2], y[2])
    IN  <<(ll[1] + Mul16(x[1], y[2])[2] + Mul16(x[2], y[1])[2]) % Limb, ll[2]>>

wrapping_add(x, y) ==
    LET lo == x[2] + y[2]
    IN  <<(x[1] + y[1] + (lo \div Limb)) % Limb, lo % Limb>>

\* x % m for a u32 x and a small modulus m.
Rem(x, m) == (((x[1] % m) * (Limb % m)) + (x[2] % m)) % m

(***************************************************************************)
(* rand: the linear congruential generator.  The result is both the new    *)
(* SEED and the value returned.                                            *)
(***************************************************************************)
A == 1664525
C == 1013904223

\* Variant: the increment is added with saturation instead of wrapping.
rand_saturating(seed) ==
    LET p == wrapping_mul(U32(A), seed)
        c == U32(C)
        lo == p[2] + c[2]
        hi == p[1] + c[1] + (lo \div Limb)
    IN  IF hi >= Limb THEN <<Limb - 1, Limb - 1>> ELSE <<hi, lo % Limb>>

rand(seed) == wrapping_add(wrapping_mul(U32(A), seed), U32(C))

(***************************************************************************)
(* generate_random_unique_digits: six rand calls, each reduced mod 10 and  *)
(* probed forward to the next digit not yet used in this call.             *)
(***************************************************************************)
RECURSIVE probe(_, _)
probe(digits, digit) ==
    IF digit \in digits THEN probe(digits, (digit + 1) % 10) ELSE digit

RECURSIVE digits_loop(_, _, _, _)
digits_loop(i, num, digits, seed) ==
    IF i = 6 THEN [num |-> num, seed |-> seed]
    ELSE LET s == rand(seed)
             digit == probe(digits, Rem(s, 10))
         IN  digits_loop(i + 1, num * 10 + digit, digits \cup {digit}, s)

\* Variant: the candidate digit is taken as it comes, without the probe.
RECURSIVE digits_loop_noprobe(_, _, _)
digits_loop_noprobe(i, num, seed) ==
    IF i = 6 THEN [num |-> num, seed |-> seed]
    ELSE LET s == rand(seed)
         IN  digits_loop_noprobe(i + 1, num * 10 + Rem(s, 10), s)

generate_random_unique_digits_noprobe(seed) == digits_loop_noprobe(0, 0, seed)

\* Variant: the probe walks down, digit = (digit + 9) % 10.
RECURSIVE probe_down(_, _)
probe_down(digits, digit) ==
    IF digit \in digits THEN probe_down(digits, (digit + 9) % 10) ELSE digit

RECURSIVE digits_loop_down(_, _, _, _)
digits_loop_down(i, num, digits, seed) ==
    IF i = 6 THEN [num |-> num, seed |-> seed]
    ELSE LET s == rand(seed)
             digit == probe_down(digits, Rem(s, 10))
         IN  digits_loop_down(i + 1, num * 10 + digit, digits \cup {digit}, s)

generate_random_unique_digits_down(seed) == digits_loop_down(0, 0, {}, seed)

generate_random_unique_digits(seed) == digits_loop(0, 0, {}, seed)

\* The number of times the body of the while loop runs for one digit, and
\* these counts for the six digits of one call.
RECURSIVE probe_steps(_, _)
probe_steps(digits, digit) ==
    IF digit \in digits THEN 1 + probe_steps(digits, (digit + 1) % 10) ELSE 0

RECURSIVE loop_steps(_, _, _)
loop_steps(i, digits, seed) ==
    IF i = 6 THEN <<>>
    ELSE LET s == rand(seed)
             r == Rem(s, 10)
         IN  <<probe_steps(digits, r)>>
                \o loop_steps(i + 1, digits \cup {probe(digits, r)}, s)

(***************************************************************************)
(* generate_ticket_id: derive values until one is not a key of old_tickets.*)
(***************************************************************************)
\* Variant: a value is derived once before the loop and again inside it.
RECURSIVE generate_ticket_id_twice(_, _)
generate_ticket_id_twice(old_tickets, seed) ==
    LET first == generate_random_unique_digits(seed)
        g == generate_random_unique_digits(first.seed)
    IN  IF g.num \in old_tickets
        THEN generate_ticket_id_twice(old_tickets, g.seed)
        ELSE g

RECURSIVE generate_ticket_id(_, _)
generate_ticket_id(old_tickets, seed) ==
    LET g == generate_random_unique_digits(seed)
    IN  IF g.num \in old_tickets
        THEN generate_ticket_id(old_tickets, g.seed)
        ELSE g

\* The number of derivations the loop of generate_ticket_id makes.
RECURSIVE derivations(_, _)
derivations(old_tickets, seed) ==
    LET g == generate_random_unique_digits(seed)
    IN  IF g.num \in old_tickets
        THEN 1 + derivations(old_tickets, g.seed)
        ELSE 1

(***************************************************************************)
(* Mapping::insert on a function with a growing domain.                    *)
(***************************************************************************)
insert(m, k, v) == [x \in DOMAIN m \cup {k} |-> IF x = k THEN v ELSE m[x]]

(***************************************************************************)
(* The constructor and the messages, as functions from the storage, the    *)
(* seed and the environment's values to the new storage, the new seed and  *)
(* the value returned.                                                     *)
(***************************************************************************)
new(ticket_price, duration) ==
    [ticket_price |-> ticket_price,
     tickets |-> <<>>,
     old_tickets |-> {},
     tickets_t |-> <<>>,
     start_time |-> None,
     duration |-> duration]

get_all_tickets(s) == s.tickets_t

\* Variant: the round is opened before the balance is checked.
buy_ticket_late_check(s, seed, who, transferred_balance, block_timestamp) ==
    LET st == IF s.start_time # None THEN s.start_time
              ELSE Some(block_timestamp)
        g == generate_ticket_id(s.old_tickets, seed)
    IN  IF transferred_balance < s.ticket_price
        THEN [self |-> [s EXCEPT !.start_time = st], seed |-> seed,
              ret |-> Err("InsufficientAllowance"), ticket_id |-> None]
        ELSE [self |-> [s EXCEPT !.start_time = st,
                                 !.tickets = insert(s.tickets, who, g.num),
                                 !.tickets_t = Append(s.tickets_t, <<who, g.num>>)],
              seed |-> g.seed,
              ret |-> Ok,
              ticket_id |-> Some(g.num)]

\* Variant: the sale is inserted at index 0 instead of index len.
buy_ticket_front(s, seed, who, transferred_balance, block_timestamp) ==
    IF transferred_balance < s.ticket_price
    THEN [self |-> s, seed |-> seed, ret |-> Err("InsufficientAllowance"),
          ticket_id |-> None]
    ELSE LET st == IF s.start_time # None THEN s.start_time
                   ELSE Some(block_timestamp)
             g == generate_ticket_id(s.old_tickets, seed)
         IN  [self |-> [s EXCEPT !.start_time = st,
                                 !.tickets = insert(s.tickets, who, g.num),
                                 !.tickets_t = <<<<who, g.num>>>> \o s.tickets_t],
              seed |-> g.seed,
              ret |-> Ok,
              ticket_id |-> Some(g.num)]

\* Variant: a purchase after the sale window has elapsed is rejected.
buy_ticket_expiry(s, seed, who, transferred_balance, block_timestamp) ==
    IF transferred_balance < s.ticket_price
    THEN [self |-> s, seed |-> seed, ret |-> Err("InsufficientAllowance"),
          ticket_id |-> None]
    ELSE IF s.start_time # None /\ block_timestamp - s.start_time[1] >= s.duration
    THEN [self |-> s, seed |-> seed, ret |-> Err("LotteryTimeExpired"),
          ticket_id |-> None]
    ELSE LET st == IF s.start_time # None THEN s.start_time
                   ELSE Some(block_timestamp)
             g == generate_ticket_id(s.old_tickets, seed)
         IN  [self |-> [s EXCEPT !.start_time = st,
                                 !.tickets = insert(s.tickets, who, g.num),
                                 !.tickets_t = Append(s.tickets_t, <<who, g.num>>)],
              seed |-> g.seed,
              ret |-> Ok,
              ticket_id |-> Some(g.num)]

\* Variant: every purchase sets start_time to its own timestamp.
buy_ticket_restart(s, seed, who, transferred_balance, block_timestamp) ==
    IF transferred_balance < s.ticket_price
    THEN [self |-> s, seed |-> seed, ret |-> Err("InsufficientAllowance"),
          ticket_id |-> None]
    ELSE LET g == generate_ticket_id(s.old_tickets, seed)
         IN  [self |-> [s EXCEPT !.start_time = Some(block_timestamp),
                                 !.tickets = insert(s.tickets, who, g.num),
                                 !.tickets_t = Append(s.tickets_t, <<who, g.num>>)],
              seed |-> g.seed,
              ret |-> Ok,
              ticket_id |-> Some(g.num)]

\* Variant: an owner already in `tickets` keeps the identifier it has.
buy_ticket_keep_first(s, seed, who, transferred_balance, block_timestamp) ==
    IF transferred_balance < s.ticket_price
    THEN [self |-> s, seed |-> seed, ret |-> Err("InsufficientAllowance"),
          ticket_id |-> None]
    ELSE LET st == IF s.start_time # None THEN s.start_time
                   ELSE Some(block_timestamp)
             g == generate_ticket_id(s.old_tickets, seed)
         IN  [self |-> [s EXCEPT !.start_time = st,
                                 !.tickets = IF who \in DOMAIN s.tickets
                                             THEN s.tickets
                                             ELSE insert(s.tickets, who, g.num),
                                 !.tickets_t = Append(s.tickets_t, <<who, g.num>>)],
              seed |-> g.seed,
              ret |-> Ok,
              ticket_id |-> Some(g.num)]

\* Variant: the block timestamp is mixed into the seed of the derivation.
buy_ticket_timestamp(s, seed, who, transferred_balance, block_timestamp) ==
    IF transferred_balance < s.ticket_price
    THEN [self |-> s, seed |-> seed, ret |-> Err("InsufficientAllowance"),
          ticket_id |-> None]
    ELSE LET st == IF s.start_time # None THEN s.start_time
                   ELSE Some(block_timestamp)
             g == generate_ticket_id(s.old_tickets,
                                     wrapping_add(seed, U32(block_timestamp)))
         IN  [self |-> [s EXCEPT !.start_time = st,
                                 !.tickets = insert(s.tickets, who, g.num),
                                 !.tickets_t = Append(s.tickets_t, <<who, g.num>>)],
              seed |-> g.seed,
              ret |-> Ok,
              ticket_id |-> Some(g.num)]

buy_ticket(s, seed, who, transferred_balance, block_timestamp) ==
    IF transferred_balance < s.ticket_price
    THEN [self |-> s, seed |-> seed, ret |-> Err("InsufficientAllowance"),
          ticket_id |-> None]
    ELSE LET st == IF s.start_time # None THEN s.start_time
                   ELSE Some(block_timestamp)
             g == generate_ticket_id(s.old_tickets, seed)
         IN  [self |-> [s EXCEPT !.start_time = st,
                                 !.tickets = insert(s.tickets, who, g.num),
                                 !.tickets_t = Append(s.tickets_t, <<who, g.num>>)],
              seed |-> g.seed,
              ret |-> Ok,
              ticket_id |-> Some(g.num)]

\* Variant: start_time is not cleared by the draw.
declare_winner_keeps_start(s, seed) ==
    LET g == generate_random_unique_digits(seed)
    IN  IF Len(s.tickets_t) = 0
        THEN [self |-> s, seed |-> g.seed,
              ret |-> Panic("remainder with a divisor of zero"),
              random_index |-> None]
        ELSE LET idx == g.num % Len(s.tickets_t)
             IN  [self |-> [s EXCEPT !.tickets_t = <<>>],
                  seed |-> g.seed,
                  ret |-> Value(s.tickets_t[idx + 1]),
                  random_index |-> Some(idx)]

\* Variant: tickets_t is not cleared by the draw.
declare_winner_keeps_tickets(s, seed) ==
    LET g == generate_random_unique_digits(seed)
    IN  IF Len(s.tickets_t) = 0
        THEN [self |-> s, seed |-> g.seed,
              ret |-> Panic("remainder with a divisor of zero"),
              random_index |-> None]
        ELSE LET idx == g.num % Len(s.tickets_t)
             IN  [self |-> [s EXCEPT !.start_time = None],
                  seed |-> g.seed,
                  ret |-> Value(s.tickets_t[idx + 1]),
                  random_index |-> Some(idx)]

\* Variant: the winner's identifier is read from the `tickets` mapping.
declare_winner_latest(s, seed) ==
    LET g == generate_random_unique_digits(seed)
    IN  IF Len(s.tickets_t) = 0
        THEN [self |-> s, seed |-> g.seed,
              ret |-> Panic("remainder with a divisor of zero"),
              random_index |-> None]
        ELSE LET idx == g.num % Len(s.tickets_t)
                 owner == s.tickets_t[idx + 1][1]
             IN  [self |-> [s EXCEPT !.start_time = None, !.tickets_t = <<>>],
                  seed |-> g.seed,
                  ret |-> Value(<<owner, s.tickets[owner]>>),
                  random_index |-> Some(idx)]

\* Variant: the draw also empties the `tickets` mapping.
declare_winner_clears_map(s, seed) ==
    LET g == generate_random_unique_digits(seed)
    IN  IF Len(s.tickets_t) = 0
        THEN [self |-> s, seed |-> g.seed,
              ret |-> Panic("remainder with a divisor of zero"),
              random_index |-> None]
        ELSE LET idx == g.num % Len(s.tickets_t)
             IN  [self |-> [s EXCEPT !.start_time = None, !.tickets_t = <<>>,
                                     !.tickets = <<>>],
                  seed |-> g.seed,
                  ret |-> Value(s.tickets_t[idx + 1]),
                  random_index |-> Some(idx)]

\* Variant: the index is one raw value of rand modulo the length.
declare_winner_raw(s, seed) ==
    LET r == rand(seed)
    IN  IF Len(s.tickets_t) = 0
        THEN [self |-> s, seed |-> r,
              ret |-> Panic("remainder with a divisor of zero"),
              random_index |-> None]
        ELSE LET idx == Rem(r, Len(s.tickets_t))
             IN  [self |-> [s EXCEPT !.start_time = None, !.tickets_t = <<>>],
                  seed |-> r,
                  ret |-> Value(s.tickets_t[idx + 1]),
                  random_index |-> Some(idx)]

\* The left operand of % is evaluated first, so the stream has advanced by
\* six values when the remainder by a zero length panics.
declare_winner(s, seed) ==
    LET g == generate_random_unique_digits(seed)
    IN  IF Len(s.tickets_t) = 0
        THEN [self |-> s, seed |-> g.seed,
              ret |-> Panic("remainder with a divisor of zero"),
              random_index |-> None]
        ELSE LET idx == g.num % Len(s.tickets_t)
             IN  [self |-> [s EXCEPT !.start_time = None, !.tickets_t = <<>>],
                  seed |-> g.seed,
                  ret |-> Value(s.tickets_t[idx + 1]),
                  random_index |-> Some(idx)]

(***************************************************************************)
(* Initial state: the storage as the constructor leaves it, SEED = 0.      *)
(***************************************************************************)
Init ==
    /\ \E p \in Prices, d \in Durations : self = new(p, d)
    /\ SEED = U32(0)
    /\ op = "new"
    /\ ret = Ok
    /\ caller = NoCaller
    /\ balance = 0
    /\ now = 0
    /\ random_index = None
    /\ issued = <<>>
    /\ nops = 0
    /\ nraw = 0
    /\ twin = [self |-> self, SEED |-> SEED, issued |-> issued,
               random_index |-> random_index]

(***************************************************************************)
(* Actions: one per message.                                               *)
(***************************************************************************)
BuyTicket(c, b, t) ==
    LET r == buy_ticket(self, SEED, c, b, t)
    IN  /\ self' = r.self
        /\ SEED' = r.seed
        /\ ret' = r.ret
        /\ op' = "buy_ticket"
        /\ caller' = c
        /\ balance' = b
        /\ now' = t
        /\ issued' = IF r.ticket_id = None THEN issued
                     ELSE Append(issued, r.ticket_id[1])
        /\ nops' = IF r.seed = SEED THEN nops ELSE nops + 1
        /\ UNCHANGED <<random_index, nraw>>

DeclareWinner ==
    LET r == declare_winner(self, SEED)
    IN  /\ self' = r.self
        /\ SEED' = r.seed
        /\ ret' = r.ret
        /\ op' = "declare_winner"
        /\ random_index' = r.random_index
        /\ nops' = nops + 1
        /\ caller' = NoCaller
        /\ balance' = 0
        /\ UNCHANGED <<now, issued, nraw>>

GetAllTickets ==
    /\ ret' = Value(get_all_tickets(self))
    /\ op' = "get_all_tickets"
    /\ caller' = NoCaller
    /\ balance' = 0
    /\ UNCHANGED <<self, SEED, now, random_index, issued, nops, nraw>>

\* The functions that are `pub fn` without being messages: callable on the
\* contract value in the same process, as the unit tests call the messages.
GetCaller(c) ==
    /\ ret' = Value(c)
    /\ op' = "get_caller"
    /\ caller' = c
    /\ balance' = 0
    /\ UNCHANGED <<self, SEED, now, random_index, issued, nops, nraw>>

Rand ==
    LET r == rand(SEED)
    IN  /\ SEED' = r
        /\ ret' = Value(r)
        /\ op' = "rand"
        /\ nops' = nops + 1
        /\ nraw' = nraw + 1
        /\ caller' = NoCaller
        /\ balance' = 0
        /\ UNCHANGED <<self, now, random_index, issued>>

GenerateRandomUniqueDigits ==
    LET g == generate_random_unique_digits(SEED)
    IN  /\ SEED' = g.seed
        /\ ret' = Value(g.num)
        /\ op' = "generate_random_unique_digits"
        /\ nops' = nops + 1
        /\ nraw' = nraw + 1
        /\ caller' = NoCaller
        /\ balance' = 0
        /\ UNCHANGED <<self, now, random_index, issued>>

GenerateTicketId ==
    LET g == generate_ticket_id(self.old_tickets, SEED)
    IN  /\ SEED' = g.seed
        /\ ret' = Value(g.num)
        /\ op' = "generate_ticket_id"
        /\ nops' = nops + 1
        /\ nraw' = nraw + 1
        /\ caller' = NoCaller
        /\ balance' = 0
        /\ UNCHANGED <<self, now, random_index, issued>>

Purchase ==
    \E c \in Accounts, b \in Balances, t \in now..MaxTime :
        /\ (b >= self.ticket_price => nops < MaxOps)
        /\ BuyTicket(c, b, t)
        /\ UNCHANGED twin

Draw == nops < MaxOps /\ DeclareWinner /\ UNCHANGED twin

Enumerate == GetAllTickets /\ UNCHANGED twin

WhoCalls == \E c \in Accounts : GetCaller(c) /\ UNCHANGED twin

Room == nops < MaxOps /\ nraw < MaxRaw

RawValue == Room /\ Rand /\ UNCHANGED twin

Derive == Room /\ GenerateRandomUniqueDigits /\ UNCHANGED twin

Allocate == Room /\ GenerateTicketId /\ UNCHANGED twin

Next ==
    \/ Purchase
    \/ Draw
    \/ Enumerate
    \/ WhoCalls
    \/ RawValue
    \/ Derive
    \/ Allocate

Spec == Init /\ [][Next]_vars

\* One account buying at the ticket price, call after call.
Run ==
    /\ nops < MaxRun
    /\ BuyTicket("alice", self.ticket_price, now)
    /\ UNCHANGED twin

SpecRun == Init /\ [][Run]_vars

(***************************************************************************)
(* Two runs of the contract side by side, each with its own process and    *)
(* so its own SEED.  `twin` is a second contract, constructed like `self`, *)
(* that receives the same sequence of calls with the same outcomes from    *)
(* another owner, paying other amounts, always at timestamp 0.             *)
(***************************************************************************)
twin_buy(tw, accepted) ==
    LET r == buy_ticket(tw.self, tw.SEED, "carol",
                        IF accepted THEN tw.self.ticket_price ELSE 0, 0)
    IN  [self |-> r.self,
         SEED |-> r.seed,
         issued |-> IF r.ticket_id = None THEN tw.issued
                    ELSE Append(tw.issued, r.ticket_id[1]),
         random_index |-> tw.random_index]

twin_draw(tw) ==
    LET r == declare_winner(tw.self, tw.SEED)
    IN  [self |-> r.self,
         SEED |-> r.seed,
         issued |-> tw.issued,
         random_index |-> r.random_index]

TwinPurchase ==
    \E c \in Accounts, b \in Balances, t \in now..MaxTime :
        /\ (b >= self.ticket_price => nops < MaxOps)
        /\ BuyTicket(c, b, t)
        /\ twin' = twin_buy(twin, b >= self.ticket_price)

TwinDraw == nops < MaxOps /\ DeclareWinner /\ twin' = twin_draw(twin)

TwinEnumerate == GetAllTickets /\ UNCHANGED twin

TwinWhoCalls == \E c \in Accounts : GetCaller(c) /\ UNCHANGED twin

TwinRawValue ==
    /\ Room
    /\ Rand
    /\ twin' = [twin EXCEPT !.SEED = rand(twin.SEED)]

TwinDerive ==
    /\ Room
    /\ GenerateRandomUniqueDigits
    /\ twin' = [twin EXCEPT !.SEED = generate_random_unique_digits(twin.SEED).seed]

TwinAllocate ==
    /\ Room
    /\ GenerateTicketId
    /\ twin' = [twin EXCEPT
                   !.SEED = generate_ticket_id(twin.self.old_tickets, twin.SEED).seed]

NextTwin ==
    \/ TwinPurchase
    \/ TwinDraw
    \/ TwinEnumerate
    \/ TwinWhoCalls
    \/ TwinRawValue
    \/ TwinDerive
    \/ TwinAllocate

SpecTwin == Init /\ [][NextTwin]_vars

(***************************************************************************)
(* Properties.                                                             *)
(***************************************************************************)
Active == self.start_time # None
Expired == Active /\ now - self.start_time[1] >= self.duration
Ids(t) == {t[k][2] : k \in 1..Len(t)}

\* C1: a purchase whose balance is strictly below ticket_price returns
\* Err(InsufficientAllowance) and leaves the storage (tickets, tickets_t,
\* start_time, ...) and SEED as they were; the caller gets no ticket.
C1_RejectedPurchase ==
    [][(op' = "buy_ticket" /\ balance' < self.ticket_price)
        => /\ ret'.tag = "Err"
           /\ ret'.err = "InsufficientAllowance"
           /\ self' = self
           /\ SEED' = SEED
           /\ (caller' \notin DOMAIN self.tickets
                 => caller' \notin DOMAIN self'.tickets)]_vars

\* A rejected purchase in an Active round by a caller that holds no ticket.
C1_Witness ==
    /\ op = "buy_ticket"
    /\ balance < self.ticket_price
    /\ ret.tag = "Err"
    /\ Active
    /\ caller \notin DOMAIN self.tickets

\* C2: after a draw that returned a winner, tickets_t is empty and
\* start_time is None (the lifecycle state is Open).
C2_DrawResets ==
    (op = "declare_winner" /\ ret.tag = "Value")
        => (self.tickets_t = <<>> /\ self.start_time = None)

\* A draw over a round of two tickets has returned.
C2_Witness ==
    /\ op = "declare_winner"
    /\ ret.tag = "Value"
    /\ Len(issued) = 2

\* C3: a draw over a non-empty tickets_t selects an index in
\* 0..len-1 and returns the pair stored at that index before the draw; with
\* one ticket sold it returns that ticket.
C3_WinnerWasSold ==
    [][(op' = "declare_winner" /\ self.tickets_t # <<>>)
        => /\ ret'.tag = "Value"
           /\ random_index' # None
           /\ random_index'[1] \in 0..(Len(self.tickets_t) - 1)
           /\ ret'.val = self.tickets_t[random_index'[1] + 1]
           /\ \E k \in 1..Len(self.tickets_t) : ret'.val = self.tickets_t[k]
           /\ (Len(self.tickets_t) = 1 => ret'.val = self.tickets_t[1])]_vars

\* A draw over three tickets that selected an index other than 0.
C3_Witness ==
    /\ op = "declare_winner"
    /\ ret.tag = "Value"
    /\ random_index # None
    /\ random_index[1] >= 1
    /\ Len(issued) = 3

\* C4: a draw over an empty tickets_t returns an EmptyDraw error and leaves
\* the storage and SEED as they were.
C4_EmptyDrawFails ==
    [][(op' = "declare_winner" /\ self.tickets_t = <<>>)
        => /\ ret'.tag = "Err"
           /\ ret'.err = "EmptyDraw"
           /\ self' = self
           /\ SEED' = SEED]_vars

\* C5: each successful purchase appends exactly the pair (caller,
\* allocated identifier) to tickets_t and leaves the earlier entries in
\* place, and get_all_tickets returns tickets_t as it is and changes nothing;
\* so after N purchases it returns the N pairs in purchase order.
C5_SalesInOrder ==
    [][/\ (op' = "buy_ticket" /\ ret'.tag = "Ok")
            => /\ Len(issued') = Len(issued) + 1
               /\ self'.tickets_t =
                     Append(self.tickets_t, <<caller', issued'[Len(issued')]>>)
       /\ (op' = "get_all_tickets")
            => /\ ret'.tag = "Value"
               /\ ret'.val = self.tickets_t
               /\ self' = self]_vars

\* get_all_tickets has returned three sales of one round, two of them to
\* the same owner, with the identifiers in the order of their allocation.
C5_Witness ==
    /\ op = "get_all_tickets"
    /\ ret.tag = "Value"
    /\ Len(ret.val) = 3
    /\ Len(issued) = 3
    /\ \A k \in 1..3 : ret.val[k][2] = issued[k]
    /\ ret.val[1][1] = ret.val[3][1]
    /\ ret.val[1][1] # ret.val[2][1]

\* The six decimal digits of t, padded on the left with zeros.
Digit(t, k) == (t \div (10 ^ k)) % 10
SixDistinctDigits(t) ==
    /\ t \in 0..999999
    /\ \A j, k \in 0..5 : j # k => Digit(t, j) # Digit(t, k)

\* C6: every identifier stored in tickets_t has six pairwise distinct
\* decimal digits.
C6_DistinctDigits ==
    \A k \in 1..Len(self.tickets_t) : SixDistinctDigits(self.tickets_t[k][2])

\* Three identifiers are stored, and they came from a stream whose raw
\* digits collided (the first identifier, 327485, needed the probe).
C6_Witness ==
    /\ Len(self.tickets_t) = 3
    /\ self.tickets_t[1][2] = 327485

\* C7: start_time is None exactly when tickets_t is empty.
C7_StartTimeIffTickets ==
    (self.start_time = None) <=> (self.tickets_t = <<>>)

\* A second round is Active: a draw has happened and a ticket was sold since.
C7_Witness ==
    /\ random_index # None
    /\ Active
    /\ self.tickets_t # <<>>
    /\ Len(issued) > Len(self.tickets_t)

\* C8: the identifier allocated by a purchase differs from every
\* identifier allocated by an earlier purchase.
C8_NoReissue ==
    \A i \in 1..(Len(issued) - 1) : issued[i] # issued[Len(issued)]

\* C9: an identifier that was sold and is no longer in tickets_t (its round
\* has been drawn) is a key of old_tickets.
C9_SoldIdsRetired ==
    \A i \in 1..Len(issued) :
        issued[i] \notin Ids(self.tickets_t) => issued[i] \in self.old_tickets

\* C10: a purchase with balance >= ticket_price succeeds and records a
\* ticket whatever the block timestamp, also when the sale window has
\* elapsed, and no message returns LotteryTimeExpired.
C10_NoExpiry ==
    [][/\ (op' = "buy_ticket" /\ balance' >= self.ticket_price)
            => /\ ret'.tag = "Ok"
               /\ Len(self'.tickets_t) = Len(self.tickets_t) + 1
       /\ ret'.tag = "Err" => ret'.err # "LotteryTimeExpired"]_vars

\* A purchase has succeeded in an Active round after the window elapsed.
C10_Witness ==
    /\ op = "buy_ticket"
    /\ ret.tag = "Ok"
    /\ Len(self.tickets_t) >= 2
    /\ Expired


\* C11: a successful purchase in the Open state sets start_time to the
\* timestamp of that purchase; a successful purchase in the Active state
\* leaves start_time as it is.
C11_StartTimeIsFirstSale ==
    [][(op' = "buy_ticket" /\ ret'.tag = "Ok")
        => /\ (self.start_time = None => self'.start_time = Some(now'))
           /\ (self.start_time # None => self'.start_time = self.start_time)]_vars

\* A second sale of a round was made later than the first and start_time
\* still holds the timestamp of the first.
C11_Witness ==
    /\ op = "buy_ticket"
    /\ ret.tag = "Ok"
    /\ Len(self.tickets_t) = 2
    /\ Active
    /\ now > self.start_time[1]

\* The position of the last entry of owner a in the sequence t.
LastEntry(t, a) ==
    CHOOSE k \in 1..Len(t) :
        /\ t[k][1] = a
        /\ \A j \in (k + 1)..Len(t) : t[j][1] # a

\* C12: every owner that appears in tickets_t is a key of `tickets`, and
\* its value is the identifier of that owner's last entry in tickets_t.
C12_LatestTicket ==
    \A k \in 1..Len(self.tickets_t) :
        LET a == self.tickets_t[k][1]
        IN  /\ a \in DOMAIN self.tickets
            /\ self.tickets[a] =
                  self.tickets_t[LastEntry(self.tickets_t, a)][2]

\* An owner has bought twice in one round, another owner in between.
C12_Witness ==
    /\ Len(self.tickets_t) = 3
    /\ self.tickets_t[1][1] = self.tickets_t[3][1]
    /\ self.tickets_t[2][1] # self.tickets_t[1][1]
    /\ self.tickets[self.tickets_t[1][1]] = self.tickets_t[3][2]


\* C18: a draw that returns a winner leaves ticket_price, duration,
\* old_tickets and `tickets` as they were (an owner's entry of the finished
\* round is still there), and no message ever changes ticket_price or
\* duration.
C18_DrawFrame ==
    [][/\ (op' = "declare_winner" /\ ret'.tag = "Value")
            => /\ self'.ticket_price = self.ticket_price
               /\ self'.duration = self.duration
               /\ self'.old_tickets = self.old_tickets
               /\ self'.tickets = self.tickets
               /\ \A k \in 1..Len(self.tickets_t) :
                     self.tickets_t[k][1] \in DOMAIN self'.tickets
       /\ self'.ticket_price = self.ticket_price
       /\ self'.duration = self.duration]_vars

\* A draw has returned and both owners of the finished round are still
\* keys of `tickets`.
C18_Witness ==
    /\ op = "declare_winner"
    /\ ret.tag = "Value"
    /\ self.tickets_t = <<>>
    /\ DOMAIN self.tickets = Accounts


\* (A * x + C) mod 2^32 by long multiplication on the four bytes of x, least
\* significant first: the recurrence as the claims state it, computed
\* without the limb arithmetic of rand.
PairByte(x, k) ==
    IF k < 2 THEN (x[2] \div (256 ^ k)) % 256
    ELSE (x[1] \div (256 ^ (k - 2))) % 256

LcgStep(x) ==
    LET a(k) == (A \div (256 ^ k)) % 256
        c(k) == (C \div (256 ^ k)) % 256
        s(k) == PairByte(x, k)
        v0 == a(0) * s(0) + c(0)
        v1 == a(0) * s(1) + a(1) * s(0) + c(1) + (v0 \div 256)
        v2 == a(0) * s(2) + a(1) * s(1) + a(2) * s(0) + c(2) + (v1 \div 256)
        v3 == a(0) * s(3) + a(1) * s(2) + a(2) * s(1) + a(3) * s(0) + c(3)
                 + (v2 \div 256)
    IN  <<(v3 % 256) * 256 + (v2 % 256), (v1 % 256) * 256 + (v0 % 256)>>

RECURSIVE LcgSteps(_, _)
LcgSteps(x, n) ==
    IF n = 0 THEN x
    ELSE LET y == LcgStep(x)
         IN  \* the test has y computed before the next step is taken
             IF y[1] \in 0..(Limb - 1) THEN LcgSteps(y, n - 1) ELSE y

\* C14: the stream starts at seed 0; a call of rand replaces SEED by
\* (A * SEED + C) mod 2^32 and returns it; a successful purchase, a draw and
\* a derivation called on its own each leave SEED six such steps further on
\* the one stream; every other call leaves SEED alone, and SEED stays a
\* 32-bit value.
C14_SeedStream ==
    /\ SEED = <<0, 0>>
    /\ [][/\ op' = "rand"
               => (SEED' = LcgStep(SEED) /\ ret'.val = SEED')
          /\ (\/ (op' = "buy_ticket" /\ ret'.tag = "Ok")
              \/ op' \in {"declare_winner", "generate_random_unique_digits",
                          "generate_ticket_id"})
               => SEED' = LcgSteps(SEED, 6)
          /\ (\/ (op' = "buy_ticket" /\ ret'.tag # "Ok")
              \/ op' \in {"get_all_tickets", "get_caller"})
               => SEED' = SEED
          /\ SEED'[1] \in 0..(Limb - 1)
          /\ SEED'[2] \in 0..(Limb - 1)]_vars

\* A call of rand, two purchases and a draw have all advanced the one
\* stream: SEED is its 19th value.
C14_Witness ==
    /\ op = "declare_winner"
    /\ Len(issued) = 2
    /\ nops = 4
    /\ nraw = 1
    /\ SEED = LcgSteps(<<0, 0>>, 19)


\* x mod 10 from the bytes of x (256^k mod 10 = 6 for k >= 1).
Mod10(x) ==
    (PairByte(x, 0) + 6 * (PairByte(x, 1) + PairByte(x, 2) + PairByte(x, 3))) % 10

\* The first k digits of a derivation that starts at `seed`: digit k is the
\* first of r, r+1, ... (mod 10), r the k-th raw value mod 10, that is not
\* among digits 1..k-1.
RECURSIVE RefDigits(_, _)
RefDigits(seed, k) ==
    IF k = 0 THEN <<>>
    ELSE LET prev == RefDigits(seed, k - 1)
             used == {prev[i] : i \in 1..(k - 1)}
             r == Mod10(LcgSteps(seed, k))
             j == CHOOSE j \in 0..9 :
                     /\ (r + j) % 10 \notin used
                     /\ \A i \in 0..(j - 1) : (r + i) % 10 \in used
         IN  Append(prev, (r + j) % 10)

RefNumber(from) ==
    LET d == RefDigits(from, 6)
    IN  d[1] * 100000 + d[2] * 10000 + d[3] * 1000 + d[4] * 100 + d[5] * 10 + d[6]

\* C13 as stated: the index of a draw is the next raw value of the stream
\* modulo the length, and the draw takes one seed step.
C13_RawIndex ==
    [][(op' = "declare_winner" /\ self.tickets_t # <<>>)
        => /\ random_index' = Some(Rem(LcgStep(SEED), Len(self.tickets_t)))
           /\ SEED' = LcgStep(SEED)]_vars

\* C13, amended: the index of a draw is the next six-distinct-digit number
\* of the stream (six raw values, six seed steps) modulo the length.
C13_DerivedIndex ==
    [][(op' = "declare_winner" /\ self.tickets_t # <<>>)
        => /\ random_index' = Some(RefNumber(SEED) % Len(self.tickets_t))
           /\ SEED' = LcgSteps(SEED, 6)]_vars

\* A draw over two tickets selected index 0 (705436 mod 2), where the next
\* raw value, being odd, would have selected index 1.
C13_Witness ==
    /\ op = "declare_winner"
    /\ ret.tag = "Value"
    /\ Len(issued) = 2
    /\ nops = 3
    /\ random_index = Some(0)
    /\ Rem(LcgSteps(<<0, 0>>, 13), 2) = 1

\* C15: the identifier a purchase is issued is the number whose k-th digit
\* is the first digit, in cyclic order from the k-th raw value mod 10, not
\* used by digits 1..k-1 of the same call, and the call consumes six raw
\* values.
C15_DigitsByProbe ==
    [][(op' = "buy_ticket" /\ ret'.tag = "Ok")
        => /\ issued'[Len(issued')] = RefNumber(SEED)
           /\ SEED' = LcgSteps(SEED, 6)]_vars

\* The seed from which the last identifier was derived, when every call so
\* far was a successful purchase.
SeedBeforeLast == LcgSteps(<<0, 0>>, 6 * (Len(issued) - 1))

\* The last identifier issued (the sixth, 541890) needed a probe that
\* wrapped from 9 to 0.
C15_Witness ==
    /\ op = "buy_ticket"
    /\ Len(issued) = 6
    /\ nops = Len(issued)
    /\ issued[Len(issued)] = RefNumber(SeedBeforeLast)
    /\ \E k \in 2..6 :
          RefDigits(SeedBeforeLast, 6)[k] < Mod10(LcgSteps(SeedBeforeLast, k))

\* C16: every identifier issued lies in 100000..987654.
C16_SixDigitRange ==
    \A k \in 1..Len(issued) : issued[k] >= 100000 /\ issued[k] <= 987654


\* C17: a purchase with balance >= ticket_price returns Ok; the probe of
\* each of its six digits takes at most 9 steps, and the allocation loop
\* makes exactly one derivation (six raw values), the value derived not
\* being a key of old_tickets.
C17_PurchaseCompletes ==
    [][(op' = "buy_ticket" /\ balance' >= self.ticket_price)
        => /\ ret'.tag = "Ok"
           /\ LET steps == loop_steps(0, {}, SEED)
              IN  \A k \in 1..6 : steps[k] \in 0..9
           /\ (RefNumber(SEED) \notin self.old_tickets
                 => /\ derivations(self.old_tickets, SEED) = 1
                    /\ SEED' = LcgSteps(SEED, 6))]_vars

\* A purchase has returned Ok in a later round, after a draw, and its
\* derivation needed the probe.
C17_Witness ==
    /\ op = "buy_ticket"
    /\ ret.tag = "Ok"
    /\ random_index # None
    /\ Len(issued) >= 2
    /\ nraw = 0
    /\ \E k \in 1..6 :
          loop_steps(0, {}, LcgSteps(<<0, 0>>, 6 * (nops - 1)))[k] > 0


\* C19: a run and its twin, given the same sequence of call outcomes with
\* other owners, amounts and timestamps, issue the same identifier at every
\* successful purchase and select the same index at every draw.
C19_CallerIndependence ==
    /\ twin.issued = issued
    /\ twin.random_index = random_index

\* Both runs have made three sales and a draw: in one the buyers include
\* alice and bob, the last purchase was made by bob above the price and
\* after timestamp 0; in the twin every sale went to carol at the price and
\* at timestamp 0.
C19_Witness ==
    /\ op = "buy_ticket"
    /\ ret.tag = "Ok"
    /\ Len(issued) = 3
    /\ Len(twin.issued) = 3
    /\ DOMAIN self.tickets = {"alice", "bob"}
    /\ DOMAIN twin.self.tickets = {"carol"}
    /\ caller = "bob"
    /\ balance > self.ticket_price
    /\ now > 0
    /\ random_index # None
    /\ twin.random_index # None

====
